---- MODULE Spec2Model ----
(***************************************************************************)
(* Chat client (sendMessage / checkApiStatus) and the two serverless proxy *)
(* handlers of the repository, as state machines.                          *)
(*                                                                         *)
(* Text is a sequence of tokens: SP is one whitespace character, any other *)
(* token is a run of non-whitespace characters.  "ping" is <<"ping">>.     *)
(***************************************************************************)
EXTENDS Integers, Sequences, FiniteSets, TLC

VARIABLES
    \* ---- client (src/unnamed/part_000) ----
    chatMessages,      \* state.chat.messages
    pendingMessages,   \* state.chat.pendingMessages
    hasMessages,       \* state.chat.hasMessages
    messagesLeft,      \* state.quota.messagesLeft
    quotaUsed,         \* state.quota.used
    apiStatus,         \* state.api.status
    lastCheck,         \* state.api.lastCheck
    sendPc,            \* where the one running sendMessage is suspended
    sendLocal,         \* its local `message`
    checksFetching,    \* checkApiStatus calls suspended at await fetch
    checksParsing,     \* checkApiStatus calls suspended at await response.json()
    toast,             \* the last showToast text
    \* history variables of the client
    quota0,            \* messagesLeft at construction
    sendCalls,         \* sendMessage invocations so far
    sendResult,        \* the branch the latest sendMessage invocation took
    checkCalls,        \* checkApiStatus invocations so far
    requests,          \* chat requests issued by sendMessage
    successes,         \* sends that took the success path
    failures,          \* sends that took the catch path
    \* ---- proxy (src/unnamed/part_001, src/api/chat.js) ----
    pPc,               \* "idle" | "upstream" | "done"
    req,               \* the request being handled
    res,               \* the response written so far
    payload,           \* the body sent upstream
    upstreamCalls      \* upstream fetches made for this request

clientVars == <<chatMessages, pendingMessages, hasMessages,
                messagesLeft, quotaUsed, apiStatus, lastCheck, sendPc,
                sendLocal, checksFetching, checksParsing, toast,
                quota0, sendCalls, sendResult, checkCalls, requests, successes,
                failures>>
proxyVars == <<pPc, req, res, payload, upstreamCalls>>
vars == <<clientVars, proxyVars>>

\* ------------------------------------------------------------------ bounds
MaxCalls == 3
MaxChecks == 2
MaxQuota == 2

\* -------------------------------------------------------------------- text
SP == " "
NONE == "undefined"
NoDate == -1
\* new Date(): the clock is logical, the number of liveness checks started so far
Now == checkCalls

RECURSIVE TrimLeft(_)
TrimLeft(s) ==
    IF s = <<>> THEN s
    ELSE IF Head(s) = SP THEN TrimLeft(Tail(s)) ELSE s

RECURSIVE TrimRight(_)
TrimRight(s) ==
    IF s = <<>> THEN s
    ELSE IF s[Len(s)] = SP THEN TrimRight(SubSeq(s, 1, Len(s) - 1)) ELSE s

Trim(s) == TrimRight(TrimLeft(s))

PING == <<"ping">>
PONG == <<"pong">>
APOLOGY == <<"I apologize, but I encountered an error while processing your request. Please try again.">>

\* ------------------------------------------------------------------ client
InputTexts == { <<>>, <<SP>>, <<"hi">>, <<SP, "yo", SP>> }
ReplyTexts == { <<"ok">>, PONG }
StatusValues == { "online", "offline", "checking" }

\* what response.json() can resolve to, as far as the client looks at it
ClientData ==
    { [hasChoices |-> FALSE, choices |-> <<>>],
      [hasChoices |-> TRUE, choices |-> <<>>] }
        \cup { [hasChoices |-> TRUE, choices |-> <<c>>] : c \in ReplyTexts }

addMessage(type, content) == Append(chatMessages, [type |-> type, content |-> content])

RemovePending(list, message) == SelectSeq(list, LAMBDA m : m # message)

ClientInit ==
    /\ chatMessages = <<>>
    /\ pendingMessages = <<>>
    /\ hasMessages = FALSE
    /\ quota0 \in 0..MaxQuota
    /\ messagesLeft = quota0
    /\ quotaUsed = 0
    /\ apiStatus \in StatusValues
    /\ lastCheck = NoDate
    /\ sendPc = "idle"
    /\ sendLocal = <<>>
    /\ checksFetching = 0
    /\ checksParsing = 0
    /\ toast = NONE
    /\ sendCalls = 0
    /\ sendResult = NONE
    /\ checkCalls = 0
    /\ requests = 0
    /\ successes = 0
    /\ failures = 0

NoRequest == [variant |-> "none"]
NoResponse == [status |-> 0, body |-> "none"]
NoPayload == [built |-> FALSE]

ProxyIdle ==
    /\ pPc = "idle"
    /\ req = NoRequest
    /\ res = NoResponse
    /\ payload = NoPayload
    /\ upstreamCalls = 0

\* mutant: the in-flight test of line 15 is missing
SendRejected_NoPendingCheck(message) ==
    \/ message = <<>>
    \/ messagesLeft <= 0
    \/ apiStatus # "online"

\* mutant: the quota test of line 18 is missing
SendRejected_NoQuotaCheck(message) ==
    \/ message = <<>>
    \/ Len(pendingMessages) > 0
    \/ apiStatus # "online"

\* the guards of sendMessage, lines 15-27
SendRejected(message) ==
    \/ message = <<>>
    \/ Len(pendingMessages) > 0
    \/ messagesLeft <= 0
    \/ apiStatus # "online"

\* the toast of a rejected sendMessage (none for the silent return of line 15)
RejectToast(message) ==
    IF message = <<>> \/ Len(pendingMessages) > 0 THEN toast
    ELSE IF messagesLeft <= 0
         THEN "Message quota exceeded. Please upgrade your plan."
         ELSE "AI is currently offline. Please try again later."

\* which return of lines 15-27 a rejected sendMessage takes
RejectBranch(message) ==
    IF message = <<>> THEN "empty"
    ELSE IF Len(pendingMessages) > 0 THEN "pending"
    ELSE IF messagesLeft <= 0 THEN "quota"
    ELSE "offline"

\* sendMessage up to its first await (lines 13-78)
SendMessage(inputValue) ==
    /\ sendCalls < MaxCalls
    /\ sendCalls' = sendCalls + 1
    /\ LET message == Trim(inputValue) IN
         IF SendRejected(message)
         THEN /\ toast' = RejectToast(message)
              /\ sendResult' = RejectBranch(message)
              /\ UNCHANGED <<chatMessages, pendingMessages,
                             hasMessages, sendPc, sendLocal, requests>>
         ELSE /\ UNCHANGED toast
              /\ sendResult' = "sent"
              /\ chatMessages' = addMessage("user", message)
              /\ hasMessages' = TRUE
              /\ pendingMessages' = Append(pendingMessages, message)
              /\ sendLocal' = message
              /\ requests' = requests + 1
              /\ sendPc' = "fetch"
    /\ UNCHANGED <<messagesLeft, quotaUsed, apiStatus, lastCheck,
                   checksFetching, checksParsing, quota0,
                   checkCalls, successes, failures>>

\* mutant: the catch block charges the quota as the success path does
SendCatch_ChargesQuota(errorMessage) ==
    /\ chatMessages' = addMessage("ai", APOLOGY)
    /\ toast' = errorMessage
    /\ pendingMessages' = RemovePending(pendingMessages, sendLocal)
    /\ failures' = failures + 1
    /\ sendPc' = "idle"
    /\ sendLocal' = <<>>
    /\ quotaUsed' = quotaUsed + 1
    /\ messagesLeft' = messagesLeft - 1
    /\ UNCHANGED successes

\* mutant: the catch block forgets line 120 and leaves the message pending
SendCatch_KeepsPending(errorMessage) ==
    /\ chatMessages' = addMessage("ai", APOLOGY)
    /\ toast' = errorMessage
    /\ failures' = failures + 1
    /\ sendPc' = "idle"
    /\ sendLocal' = <<>>
    /\ UNCHANGED <<pendingMessages, messagesLeft, quotaUsed, successes>>

\* the catch block of sendMessage (lines 109-121)
SendCatch(errorMessage) ==
    /\ chatMessages' = addMessage("ai", APOLOGY)
    /\ toast' = errorMessage
    /\ pendingMessages' = RemovePending(pendingMessages, sendLocal)
    /\ failures' = failures + 1
    /\ sendPc' = "idle"
    /\ sendLocal' = <<>>
    /\ UNCHANGED <<messagesLeft, quotaUsed, successes>>

\* the success tail of sendMessage (lines 87-107)
SendSucceed(aiResponse) ==
    /\ chatMessages' = addMessage("ai", aiResponse)
    /\ toast' = "Response generated successfully!"
    /\ quotaUsed' = quotaUsed + 1
    /\ messagesLeft' = messagesLeft - 1
    /\ pendingMessages' = RemovePending(pendingMessages, sendLocal)
    /\ successes' = successes + 1
    /\ sendPc' = "idle"
    /\ sendLocal' = <<>>
    /\ UNCHANGED failures

sendFrame == <<sendResult, hasMessages, apiStatus, lastCheck,
               checksFetching, checksParsing, quota0, sendCalls, checkCalls,
               requests>>

\* fetch rejects (network error)
SendFetchRejected ==
    /\ sendPc = "fetch"
    /\ SendCatch("Failed to generate response: Failed to fetch")
    /\ UNCHANGED sendFrame

\* fetch resolves; a non-2xx response throws at line 81
SendFetchResolved ==
    /\ sendPc = "fetch"
    /\ \E ok \in BOOLEAN :
         IF ok
         THEN /\ sendPc' = "json"
              /\ UNCHANGED <<chatMessages, pendingMessages, messagesLeft,
                             quotaUsed, sendLocal, toast, successes, failures>>
         ELSE SendCatch("Failed to generate response: API request failed with status")
    /\ UNCHANGED sendFrame

\* response.json() rejects (malformed body)
SendJsonRejected ==
    /\ sendPc = "json"
    /\ SendCatch("Failed to generate response: Unexpected token")
    /\ UNCHANGED sendFrame

\* response.json() resolves; data.choices[0].message.content is read
SendJsonResolved ==
    /\ sendPc = "json"
    /\ \E data \in ClientData :
         IF ~data.hasChoices \/ data.choices = <<>>
         THEN SendCatch("Failed to generate response: Cannot read properties of undefined")
         ELSE SendSucceed(data.choices[1])
    /\ UNCHANGED sendFrame

checkFrame == <<sendResult, chatMessages, pendingMessages, hasMessages,
                messagesLeft, quotaUsed, sendPc, sendLocal, toast,
                quota0, sendCalls, requests, successes, failures>>

\* the catch block of checkApiStatus (lines 151-156)
CheckCatch(errorMessage) ==
    /\ apiStatus' = "offline"
    /\ UNCHANGED lastCheck

\* checkApiStatus up to its first await (lines 125-135)
CheckApiStatus ==
    /\ checkCalls < MaxChecks
    /\ checkCalls' = checkCalls + 1
    /\ checksFetching' = checksFetching + 1
    /\ UNCHANGED <<apiStatus, lastCheck, checksParsing>>
    /\ UNCHANGED checkFrame

\* mutant: a failed liveness fetch also drops the pending list
CheckFetchRejected_DropsPending ==
    /\ checksFetching > 0
    /\ checksFetching' = checksFetching - 1
    /\ apiStatus' = "offline"
    /\ pendingMessages' = <<>>
    /\ UNCHANGED <<lastCheck, checksParsing, checkCalls, sendResult,
                   chatMessages, hasMessages, messagesLeft, quotaUsed, sendPc,
                   sendLocal, toast, quota0, sendCalls, requests, successes,
                   failures>>

CheckFetchRejected ==
    /\ checksFetching > 0
    /\ checksFetching' = checksFetching - 1
    /\ CheckCatch("Failed to fetch")
    /\ UNCHANGED <<checksParsing, checkCalls>>
    /\ UNCHANGED checkFrame

CheckFetchResolved ==
    /\ checksFetching > 0
    /\ checksFetching' = checksFetching - 1
    /\ \E ok \in BOOLEAN :
         IF ok
         THEN /\ checksParsing' = checksParsing + 1
              /\ UNCHANGED <<apiStatus, lastCheck>>
         ELSE /\ CheckCatch("API returned status")
              /\ UNCHANGED checksParsing
    /\ UNCHANGED checkCalls
    /\ UNCHANGED checkFrame

CheckJsonRejected ==
    /\ checksParsing > 0
    /\ checksParsing' = checksParsing - 1
    /\ CheckCatch("Unexpected token")
    /\ UNCHANGED <<checksFetching, checkCalls>>
    /\ UNCHANGED checkFrame

CheckJsonResolved ==
    /\ checksParsing > 0
    /\ checksParsing' = checksParsing - 1
    /\ \E data \in ClientData :
         IF ~data.hasChoices THEN CheckCatch("Invalid ping response")
         ELSE IF data.choices = <<>>
              THEN CheckCatch("Cannot read properties of undefined")
         ELSE IF data.choices[1] = PONG
              THEN /\ apiStatus' = "online"
                   /\ lastCheck' = Now
              ELSE CheckCatch("Invalid ping response")
    /\ UNCHANGED <<checksFetching, checkCalls>>
    /\ UNCHANGED checkFrame

SendStep ==
    \/ SendFetchRejected
    \/ SendFetchResolved
    \/ SendJsonRejected
    \/ SendJsonResolved

CheckStep ==
    \/ CheckApiStatus
    \/ CheckFetchRejected
    \/ CheckFetchResolved
    \/ CheckJsonRejected
    \/ CheckJsonResolved


\* ------------------------------------------------------------------- proxy
MaxMsgs == 2

Min(a, b) == IF a < b THEN a ELSE b
Max(a, b) == IF a > b THEN a ELSE b

Methods == { "OPTIONS", "GET", "POST" }
Roles == { NONE, "user", "assistant", "system" }

\* a message's content: absent, blank, "ping", or text with trailing space
Contents ==
    { [has |-> FALSE, text |-> <<>>],
      [has |-> TRUE, text |-> <<SP>>],
      [has |-> TRUE, text |-> PING],
      [has |-> TRUE, text |-> <<"hi", SP>>] }

InMessages == { [role |-> r, content |-> c] : r \in Roles, c \in Contents }

MessageLists == UNION { [1..n -> InMessages] : n \in 0..MaxMsgs }

Options(hasLength, length, hasCreativity, creativity, hasSystem) ==
    [hasLength |-> hasLength, length |-> length,
     hasCreativity |-> hasCreativity, creativity |-> creativity,
     hasSystem |-> hasSystem]

SendOptions == Options(TRUE, 1024, TRUE, 70, TRUE)     \* part_000 lines 63-67
PingOptions == Options(TRUE, 10, FALSE, 0, FALSE)      \* part_000 line 133

Lengths == (-2..3) \cup { 10, 1023, 1024, 1025, 4095, 4096, 4097, 5000 }
Creativities == { -10, -1, 0, 1, 50, 70, 99, 100, 101, 250 }

WideOptions ==
    { Options(TRUE, l, FALSE, 0, FALSE) : l \in Lengths }
        \cup { Options(FALSE, 0, TRUE, c, s) : c \in Creativities, s \in BOOLEAN }
        \cup { Options(TRUE, l, TRUE, c, TRUE) : l \in {0, 1024, 5000}, c \in {-10, 0, 50, 100, 250} }
        \cup { Options(FALSE, 0, FALSE, 0, FALSE) }

NormalizerRequest(method, apiKey, messagesKind, messages, hasOptions, options) ==
    [variant |-> "normalizer", method |-> method, apiKey |-> apiKey,
     messagesKind |-> messagesKind, messages |-> messages,
     hasOptions |-> hasOptions, options |-> options]

OneUserMessage == << [role |-> "user", content |-> [has |-> TRUE, text |-> <<"hi", SP>>]] >>

\* the requests the normalizer is driven with: every short message list under
\* the client's two option objects, and one plain conversation under every
\* option object
NormalizerRequests ==
    { NormalizerRequest(m, k, "array", ms, TRUE, o) :
        m \in Methods, k \in BOOLEAN, ms \in MessageLists,
        o \in {SendOptions, PingOptions} }
    \cup { NormalizerRequest("POST", k, "array", ms, FALSE, PingOptions) :
        k \in BOOLEAN, ms \in { <<>>, OneUserMessage,
                               << [role |-> "user", content |-> [has |-> TRUE, text |-> PING]] >> } }
    \cup { NormalizerRequest("POST", k, mk, <<>>, ho, PingOptions) :
        k \in BOOLEAN, mk \in {"absent", "notArray"}, ho \in BOOLEAN }
    \cup { NormalizerRequest("POST", TRUE, "array", OneUserMessage, TRUE, o) :
        o \in WideOptions }

\* what the upstream fetch can produce
UpstreamStatuses == { 200, 400, 401, 429, 500, 529 }
ContentLists ==
    { <<>>,
      << [hasText |-> FALSE, text |-> <<>>] >>,
      << [hasText |-> TRUE, text |-> <<SP>>] >>,
      << [hasText |-> TRUE, text |-> <<SP, "ok">>] >> }
UpstreamBodies ==
    { [json |-> FALSE, errMessage |-> <<>>, hasContent |-> FALSE, content |-> <<>>] }
    \cup { [json |-> TRUE, errMessage |-> e, hasContent |-> FALSE, content |-> <<>>] :
            e \in { <<>>, <<"Overloaded">> } }
    \cup { [json |-> TRUE, errMessage |-> <<>>, hasContent |-> TRUE, content |-> c] :
            c \in ContentLists }
UpstreamReplies ==
    { [rejected |-> TRUE, status |-> 0, body |-> [json |-> FALSE, errMessage |-> <<>>, hasContent |-> FALSE, content |-> <<>>]] }
    \cup { [rejected |-> FALSE, status |-> st, body |-> b] :
            st \in UpstreamStatuses, b \in UpstreamBodies }

Ok(status) == status >= 200 /\ status <= 299

Includes(message, token) == \E i \in 1..Len(message) : message[i] = token

End(status) == [status |-> status, body |-> "none"]
JsonError(status, error, details) ==
    [status |-> status, body |-> "error", error |-> error, details |-> details]
JsonChoices(content) ==
    [status |-> 200, body |-> "choices", content |-> content, role |-> "assistant"]

\* part_001 lines 105-111: filter, coerce the role, trim, filter again
RECURSIVE claudeMessages(_)
claudeMessages(messages) ==
    IF messages = <<>> THEN <<>>
    ELSE LET msg == Head(messages)
             rest == claudeMessages(Tail(messages))
         IN IF msg.role = NONE \/ ~msg.content.has \/ msg.content.text = <<>>
            THEN rest
            ELSE LET content == Trim(msg.content.text)
                 IN IF Len(content) > 0
                    THEN << [role |-> IF msg.role = "assistant" THEN "assistant" ELSE "user",
                             content |-> content] >> \o rest
                    ELSE rest

\* part_001 line 124: options.length || 1024, clamped
MaxTokens(options) ==
    Min(Max(IF options.hasLength /\ options.length # 0 THEN options.length ELSE 1024, 1), 4096)

\* part_001 line 126, in hundredths: creativity/100 is creativity hundredths
Temperature100(options) ==
    IF options.hasCreativity /\ options.creativity # 0
    THEN Min(options.creativity, 100)
    ELSE 70

anthropicPayload(messages, options) ==
    [built |-> TRUE,
     max_tokens |-> MaxTokens(options),
     messages |-> messages,
     temperature100 |-> Temperature100(options),
     system |-> options.hasSystem]

\* mutant: the role of the first message is not looked at
StartsWithUser_Unchecked(cm) == TRUE

\* part_001 line 118: the conversation must start with a user message
StartsWithUser(cm) == cm[1].role = "user"

\* the catch block of the normalizer, part_001 lines 74-99
HandlerCatch(message) ==
    IF Includes(message, "401")
    THEN JsonError(500, "Authentication failed. Please check your ANTHROPIC_API_KEY.", message)
    ELSE IF Includes(message, "429")
    THEN JsonError(500, "Rate limit exceeded. Please try again later.", message)
    ELSE IF Includes(message, "400")
    THEN JsonError(500, "Invalid request format.", message)
    ELSE JsonError(500, "Server error", message)

\* mutant: the probe is compared with the wrong literal
IsPing_WrongLiteral(messages) ==
    /\ Len(messages) = 1
    /\ messages[1].content.has
    /\ messages[1].content.text = PONG

IsPing(messages) ==
    /\ Len(messages) = 1
    /\ messages[1].content.has
    /\ messages[1].content.text = PING

\* the normalizer up to its response or its upstream fetch (part_001 lines 2-141)
Handler(r) ==
    /\ pPc = "idle"
    /\ req' = r
    /\ LET respond(response) ==
               /\ res' = response
               /\ pPc' = "done"
               /\ payload' = NoPayload
               /\ upstreamCalls' = 0
           cm == claudeMessages(r.messages)
       IN IF r.method = "OPTIONS" THEN respond(End(200))
          ELSE IF r.method # "POST"
          THEN respond(JsonError(405, "Method not allowed", <<>>))
          ELSE IF r.messagesKind # "array"
          THEN respond(JsonError(400, "Invalid messages format", <<>>))
          ELSE IF ~r.hasOptions
          THEN respond(JsonError(400, "Missing options", <<>>))
          ELSE IF ~r.apiKey
          THEN respond(JsonError(500, "API key not configured", <<>>))
          ELSE IF IsPing(r.messages)
          THEN respond(JsonChoices(PONG))
          ELSE IF Len(cm) = 0
          THEN respond(HandlerCatch(<<"No valid messages to send">>))
          ELSE IF ~StartsWithUser(cm)
          THEN respond(HandlerCatch(<<"Conversation must start with a user message">>))
          ELSE /\ payload' = anthropicPayload(cm, r.options)
               /\ upstreamCalls' = 1
               /\ pPc' = "upstream"
               /\ res' = NoResponse

\* the error message built from a non-2xx upstream reply (part_001 lines 147-156)
UpstreamErrorMessage(reply) ==
    LET errorMessage == <<"Claude API Error:", ToString(reply.status)>>
    IN IF reply.body.json
       THEN IF reply.body.errMessage # <<>> THEN reply.body.errMessage ELSE errorMessage
       ELSE errorMessage \o <<"-", "raw">>

\* the normalizer from the upstream reply to its response (part_001 lines 143-193, 56-72)
HandlerUpstream(reply) ==
    /\ pPc = "upstream"
    /\ req.variant = "normalizer"
    /\ pPc' = "done"
    /\ UNCHANGED <<req, payload, upstreamCalls>>
    /\ res' =
        IF reply.rejected THEN HandlerCatch(<<"fetch failed">>)
        ELSE IF ~Ok(reply.status) THEN HandlerCatch(UpstreamErrorMessage(reply))
        ELSE IF ~reply.body.json
        THEN HandlerCatch(<<"Invalid JSON response from Claude API">>)
        ELSE IF ~reply.body.hasContent
        THEN HandlerCatch(<<"Invalid response format from Claude API - no content array">>)
        ELSE IF Len(reply.body.content) = 0
        THEN HandlerCatch(<<"Empty response from Claude API">>)
        ELSE IF ~reply.body.content[1].hasText
        THEN HandlerCatch(<<"Invalid content format from Claude API">>)
        ELSE LET responseContent == Trim(reply.body.content[1].text)
             IN IF responseContent = <<>>
                THEN HandlerCatch(<<"Empty response content from Claude API">>)
                ELSE JsonChoices(responseContent)

\* ---- the single-message forwarder, src/api/chat.js
SimpleRequest(method, apiKey, hasMessage, message) ==
    [variant |-> "simple", method |-> method, apiKey |-> apiKey,
     hasMessage |-> hasMessage, message |-> message]

SimpleRequests ==
    { SimpleRequest(m, k, hm, msg) :
        m \in Methods, k \in BOOLEAN, hm \in BOOLEAN,
        msg \in { <<>>, <<SP>>, <<"hi">> } }

JsonResponse(hasText, text) ==
    [status |-> 200, body |-> "response", hasResponse |-> hasText, response |-> text]

\* chat.js up to its response or its upstream fetch (lines 1-44)
SimpleHandler(r) ==
    /\ pPc = "idle"
    /\ req' = r
    /\ LET respond(response) ==
               /\ res' = response
               /\ pPc' = "done"
               /\ payload' = NoPayload
               /\ upstreamCalls' = 0
       IN IF r.method = "OPTIONS" THEN respond(End(200))
          ELSE IF r.method # "POST"
          THEN respond(JsonError(405, "Method not allowed", <<>>))
          ELSE IF ~r.hasMessage \/ r.message = <<>>
          THEN respond(JsonError(400, "Message is required", <<>>))
          ELSE IF ~r.apiKey
          THEN respond(JsonError(500, "API key not configured", <<>>))
          ELSE /\ payload' = [built |-> TRUE, max_tokens |-> 1024,
                              messages |-> << [role |-> "user", content |-> r.message] >>]
               /\ upstreamCalls' = 1
               /\ pPc' = "upstream"
               /\ res' = NoResponse

\* chat.js from the upstream reply to its response (lines 46-64)
SimpleHandlerUpstream(reply) ==
    /\ pPc = "upstream"
    /\ req.variant = "simple"
    /\ pPc' = "done"
    /\ UNCHANGED <<req, payload, upstreamCalls>>
    /\ res' =
        IF reply.rejected
        THEN JsonError(500, "Failed to process request", <<"fetch failed">>)
        ELSE IF ~reply.body.json
        THEN JsonError(500, "Failed to process request", <<"Unexpected token">>)
        ELSE IF ~Ok(reply.status)
        THEN JsonError(reply.status, "Failed to process request",
                       IF reply.body.errMessage # <<>> THEN reply.body.errMessage
                       ELSE <<"Unknown error">>)
        ELSE IF ~reply.body.hasContent \/ Len(reply.body.content) = 0
        THEN JsonError(500, "Failed to process request",
                       <<"Cannot read properties of undefined">>)
        ELSE JsonResponse(reply.body.content[1].hasText, reply.body.content[1].text)

\* the invocation returns; the handlers keep nothing between invocations
HandlerReturn ==
    /\ pPc = "done"
    /\ pPc' = "idle"
    /\ req' = NoRequest
    /\ res' = NoResponse
    /\ payload' = NoPayload
    /\ upstreamCalls' = 0

ProxyInit ==
    /\ ClientInit
    /\ quota0 = MaxQuota
    /\ apiStatus = "checking"
    /\ ProxyIdle

ProxyNext ==
    \/ (pPc = "idle" /\ (\E r \in NormalizerRequests : Handler(r)) /\ UNCHANGED clientVars)
    \/ (pPc = "upstream" /\ (\E reply \in UpstreamReplies : HandlerUpstream(reply)) /\ UNCHANGED clientVars)
    \/ (pPc = "idle" /\ (\E r \in SimpleRequests : SimpleHandler(r)) /\ UNCHANGED clientVars)
    \/ (pPc = "upstream" /\ (\E reply \in UpstreamReplies : SimpleHandlerUpstream(reply)) /\ UNCHANGED clientVars)
    \/ (HandlerReturn /\ UNCHANGED clientVars)

ProxySpec == ProxyInit /\ [][ProxyNext]_vars

Init == ClientInit /\ ProxyIdle

Next ==
    \/ ((\E text \in InputTexts : SendMessage(text)) /\ UNCHANGED proxyVars)
    \/ (SendFetchRejected /\ UNCHANGED proxyVars)
    \/ (SendFetchResolved /\ UNCHANGED proxyVars)
    \/ (SendJsonRejected /\ UNCHANGED proxyVars)
    \/ (SendJsonResolved /\ UNCHANGED proxyVars)
    \/ (CheckApiStatus /\ UNCHANGED proxyVars)
    \/ (CheckFetchRejected /\ UNCHANGED proxyVars)
    \/ (CheckFetchResolved /\ UNCHANGED proxyVars)
    \/ (CheckJsonRejected /\ UNCHANGED proxyVars)
    \/ (CheckJsonResolved /\ UNCHANGED proxyVars)

Spec == Init /\ [][Next]_vars

\* the fetch of sendMessage and its response.json() settle
FairSpec == Spec /\ WF_vars(SendStep /\ UNCHANGED proxyVars)

\* ------------------------------------------------------------------ claims

\* a step that is an invocation of sendMessage
SendInvoked == sendCalls' = sendCalls + 1

\* a step of some checkApiStatus call
CheckActed ==
    \/ checkCalls' # checkCalls
    \/ checksFetching' # checksFetching
    \/ checksParsing' # checksParsing

SendNoOp ==
    /\ requests' = requests
    /\ chatMessages' = chatMessages
    /\ pendingMessages' = pendingMessages
    /\ messagesLeft' = messagesLeft
    /\ sendPc' = sendPc

\* C1: at most one chat request is outstanding (pendingMessages never holds
\* more than one entry), and a sendMessage invoked while a send is pending
\* issues no request and leaves history, pending list and quota unchanged.
C1_SingleOutstandingRequest ==
    /\ [](Len(pendingMessages) <= 1 /\ requests - successes - failures <= 1)
    /\ [][(SendInvoked /\ Len(pendingMessages) > 0) => SendNoOp]_vars

C1_Witness ==
    /\ sendResult = "pending"
    /\ Len(pendingMessages) = 1
    /\ sendPc # "idle"

\* C2: the quota counter equals its initial value minus the number of sends
\* that completed successfully; failed sends do not change it.
C2_QuotaCountsSuccesses ==
    /\ messagesLeft = quota0 - successes
    /\ quotaUsed = successes

C2_Witness ==
    /\ successes >= 1
    /\ failures >= 1
    /\ messagesLeft = quota0 - 1

\* C3: a sendMessage invoked with the quota at zero or with the status other
\* than online issues no request and leaves history, pending list and quota
\* unchanged.
C3_RejectedWhenExhaustedOrOffline ==
    [][(SendInvoked /\ (messagesLeft <= 0 \/ apiStatus # "online")) => SendNoOp]_vars

C3_Witness ==
    /\ sendResult = "quota"
    /\ quota0 > 0
    /\ messagesLeft = 0
    /\ apiStatus = "online"

\* C4: every accepted send ends, on success and on every failure path, with
\* the message removed from the pending list; a failure appends exactly the
\* one apology turn.
C4_SendAlwaysCompletes ==
    /\ (Len(pendingMessages) > 0) ~> (pendingMessages = <<>> /\ sendPc = "idle")
    /\ [](sendPc = "idle" => pendingMessages = <<>>)
    /\ [][failures' # failures =>
            /\ failures' = failures + 1
            /\ chatMessages' = Append(chatMessages, [type |-> "ai", content |-> APOLOGY])
            /\ pendingMessages' = <<>>]_vars

C4_Witness ==
    /\ failures >= 1
    /\ successes >= 1
    /\ sendPc = "idle"
    /\ pendingMessages = <<>>
    /\ chatMessages[Len(chatMessages)].content = APOLOGY

\* C5: a step of checkApiStatus changes nothing but the status and the
\* last-check time, and a send in flight while the status is offline can
\* still take its next step.
C5_CheckLeavesConversationAlone ==
    /\ [][CheckActed =>
            UNCHANGED <<chatMessages, pendingMessages, messagesLeft, quotaUsed,
                        sendPc, sendLocal, requests, successes, failures>>]_vars
    /\ []((sendPc # "idle" /\ apiStatus # "online") =>
            ENABLED (SendStep /\ UNCHANGED proxyVars))

C5_Witness ==
    /\ sendPc = "json"
    /\ apiStatus = "offline"
    /\ Len(pendingMessages) = 1
    /\ checkCalls >= 1

\* the request's sole message is {role: user, content: "ping"}
SoleUserPing ==
    /\ req.variant = "normalizer"
    /\ req.messagesKind = "array"
    /\ Len(req.messages) = 1
    /\ req.messages[1].role = "user"
    /\ req.messages[1].content = [has |-> TRUE, text |-> PING]

\* C6 as stated: every request whose sole message is the user ping yields
\* 200 with the pong reply, and no upstream call is made for it.  Read in
\* the claim's favour: of the well-formed requests only, a POST with options.
C6_Original ==
    (pPc # "idle" /\ SoleUserPing /\ req.method = "POST" /\ req.hasOptions) =>
        /\ upstreamCalls = 0
        /\ pPc = "done"
        /\ res = JsonChoices(PONG)

\* C6 amended: a POST request that carries options, handled with the API key
\* configured, whose sole message is the user ping yields 200 with the pong
\* reply; no request whose sole message is the user ping causes an upstream call.
C6_PingShortCircuit ==
    (pPc # "idle" /\ SoleUserPing) =>
        /\ upstreamCalls = 0
        /\ pPc = "done"
        /\ (req.method = "POST" /\ req.hasOptions /\ req.apiKey) =>
                res = JsonChoices(PONG)

C6_Witness ==
    /\ pPc = "done"
    /\ SoleUserPing
    /\ req.method = "POST"
    /\ req.hasOptions
    /\ req.apiKey
    /\ res.status = 200

NormalizerPayload ==
    /\ req.variant = "normalizer"
    /\ payload.built

\* C8 as stated: max_tokens is the requested length clamped into [1, 4096];
\* 0, 5000 and 1024 give 1, 4096 and 1024.
C8_Original ==
    NormalizerPayload =>
        /\ payload.max_tokens \in 1..4096
        /\ req.options.hasLength =>
              payload.max_tokens = Max(1, Min(req.options.length, 4096))
        /\ (req.options.hasLength /\ req.options.length = 0) => payload.max_tokens = 1
        /\ (req.options.hasLength /\ req.options.length = 5000) => payload.max_tokens = 4096
        /\ (req.options.hasLength /\ req.options.length = 1024) => payload.max_tokens = 1024

\* C9 as stated: the temperature is creativity/100 clamped into [0, 1]
\* (hundredths: -10, 50, 100, 250 give 0, 50, 100, 100), and only an absent
\* creativity gives the default 70.
C9_Original ==
    NormalizerPayload =>
        /\ req.options.hasCreativity =>
              payload.temperature100 = Max(0, Min(req.options.creativity, 100))
        /\ ~req.options.hasCreativity => payload.temperature100 = 70

\* C10 as stated: in both variants the response status is one of 200, 400,
\* 405 and 500, whatever the upstream answered.
C10_Original ==
    pPc = "done" => res.status \in {200, 400, 405, 500}

====
